---- MODULE Spec2Model ----
(***************************************************************************)
(* Model of the FPGA accelerator controller (scripts/fpga_controller.py)   *)
(* and of its performance profiler (scripts/performance_profiler.py).      *)
(*                                                                         *)
(* The controller is an object with three fields (config, is_connected,    *)
(* metrics_history) and six methods.  Each method is one action.  The      *)
(* variables op, args, outcome and ret record the most recent call: which  *)
(* method, with which arguments, whether it returned or raised, and what   *)
(* it returned, and pre holds the controller's fields as they were when   *)
(* that call began.  Floating point quantities (latencies, throughputs,        *)
(* jitters) are modelled by integers; random.uniform(a, b) is a            *)
(* nondeterministic choice from a small set of values inside [a, b].       *)
(*                                                                         *)
(* The profiler drives a controller: prof.pc is its position in a test     *)
(* and the other fields of prof are the locals of that test.               *)
(***************************************************************************)
EXTENDS Integers, Sequences, FiniteSets, TLC

VARIABLES
    is_connected,     \* FPGAController.is_connected
    config,           \* FPGAController.config, an FPGAConfig
    metrics_history,  \* FPGAController.metrics_history, a list of PerformanceMetrics
    now,              \* the clock read by time.time() in read_metrics
    pre,              \* the controller's fields when the most recent call began
    op,               \* the most recent call
    args,             \* its arguments
    outcome,          \* "ok" when it returned, else the exception it raised
    ret,              \* the value it returned
    prof              \* the profiler: where it stands in a test, and the test's locals

vars == <<is_connected, config, metrics_history, now, pre, op, args, outcome, ret, prof>>

\* the controller's fields, as a record
Fields ==
    [is_connected |-> is_connected,
     config |-> config,
     metrics_history |-> metrics_history]

\* the bookkeeping of a call of method name with arguments a
Called(name, a) ==
    /\ pre' = Fields
    /\ op' = name
    /\ args' = a

(***************************************************************************)
(* Bounds of the model.                                                    *)
(***************************************************************************)
\* the clock stops the model after this many samples (Spec)
MaxSamples == 3
\* longest payload handed to stream_data
MaxPayload == 2
\* the clock stops the model after this many samples (SpecWindow, SpecProfiler)
MaxWindowSamples == 102
\* the largest iteration count run_latency_test is called with
MaxIterations == 101
\* the leading iterations of a latency test whose elapsed time is a free choice
FreeIterations == 2
\* the most samples the loop of a jitter or throughput test reads
MaxTestSamples == 3
\* the iterations of the latency test of run_full_validation (1000 in the code)
SuiteIterations == 3

(***************************************************************************)
(* Program constants.                                                      *)
(***************************************************************************)
DefaultWindowSize == 1024
DefaultActiveCores == 4
DefaultDataRate == 1000
DefaultFilterThreshold == 100
\* get_statistics reads metrics_history[-100:]
RecentWindow == 100
\* base_latency = 50 + (8 - active_cores) * 10
BaseLatency0 == 50
MaxCores == 8
CoreStep == 10
\* throughput = active_cores * 250 + noise
ThroughputPerCore == 250
\* speedup baseline, 150 microseconds
CpuBaseline == 150
\* the latency test's payload, b"x" * 1024
TestPayloadLen == 1024
\* the jitter target, 10 microseconds
JitterTarget == 10

None == "None"

\* FPGAConfig(): the dataclass defaults
FPGAConfig ==
    [window_size |-> DefaultWindowSize,
     active_cores |-> DefaultActiveCores,
     data_rate |-> DefaultDataRate,
     filter_threshold |-> DefaultFilterThreshold]

\* the four fields of an FPGAConfig
ConfigFields == DOMAIN FPGAConfig

\* names that hasattr finds on every FPGAConfig without their being fields: the
\* attributes of the class, such as its docstring
ClassAttributes == {"__doc__"}

\* the draws of random.uniform(-5, 15), random.uniform(-50, 50) and
\* random.uniform(0, 5) in one read_metrics call: <<latency, throughput, jitter>>
RandomDraws == { <<-5, -50, 0>>, <<15, 50, 5>> }

\* the keyword arguments update_config is called with: a function from names to values
KwargsChoices ==
    { [active_cores |-> 6, window_size |-> 2048, data_rate |-> 1500],
      [active_cores |-> 0, window_size |-> 2048],
      [filter_threshold |-> -1],
      [bogus |-> 7, data_rate |-> 2000],
      "__doc__" :> 7 }

\* the payloads stream_data is called with: byte strings of b"x"
Payloads == { [i \in 1..n |-> 120] : n \in 0..MaxPayload }

\* the profiler outside any test
ProfilerIdle == [pc |-> "idle"]

(***************************************************************************)
(* FPGAController.__init__                                                 *)
(***************************************************************************)
Init ==
    /\ config = FPGAConfig
    /\ is_connected = FALSE
    /\ metrics_history = <<>>
    /\ now = 0
    /\ pre = [is_connected |-> FALSE, config |-> FPGAConfig, metrics_history |-> <<>>]
    /\ op = "__init__"
    /\ args = None
    /\ outcome = "ok"
    /\ ret = None
    /\ prof = ProfilerIdle

(***************************************************************************)
(* FPGAController.connect: sets is_connected and returns True, whatever    *)
(* the state it is called in.                                              *)
(***************************************************************************)
\* a variant of Connect that starts a fresh history on every connection
ConnectFreshHistory ==
    /\ is_connected' = TRUE
    /\ metrics_history' = <<>>
    /\ Called("connect", None)
    /\ outcome' = "ok"
    /\ ret' = TRUE
    /\ UNCHANGED <<config, now>>

Connect ==
    /\ is_connected' = TRUE
    /\ Called("connect", None)
    /\ outcome' = "ok"
    /\ ret' = TRUE
    /\ UNCHANGED <<config, metrics_history, now>>

(***************************************************************************)
(* FPGAController.disconnect: clears is_connected and nothing else.        *)
(***************************************************************************)
\* a variant of Disconnect that shuts the engine down and keeps the flag
DisconnectKeepsFlag ==
    /\ Called("disconnect", None)
    /\ outcome' = "ok"
    /\ ret' = None
    /\ UNCHANGED <<is_connected, config, metrics_history, now>>

Disconnect ==
    /\ is_connected' = FALSE
    /\ Called("disconnect", None)
    /\ outcome' = "ok"
    /\ ret' = None
    /\ UNCHANGED <<config, metrics_history, now>>

(***************************************************************************)
(* FPGAController.update_config: for every keyword that names an          *)
(* attribute of the config, setattr; the other keywords are skipped.       *)
(* There is no check of the connection and none of the values.  hasattr    *)
(* holds of the attributes the instance has and of those its class has:    *)
(* setattr of a class attribute gives the instance an attribute of that    *)
(* name.  The config is the function from the names of the instance's      *)
(* attributes to their values.                                             *)
(***************************************************************************)
\* a variant of ApplyKwargs that rebuilds the config from the defaults
ApplyKwargsFromDefaults(cfg, kwargs) ==
    [f \in DOMAIN cfg |-> IF f \in DOMAIN kwargs THEN kwargs[f] ELSE FPGAConfig[f]]

\* hasattr(self.config, key)
HasAttr(cfg, key) == key \in DOMAIN cfg \cup ClassAttributes

ApplyKwargs(cfg, kwargs) ==
    [f \in DOMAIN cfg \cup {k \in DOMAIN kwargs : HasAttr(cfg, k)} |->
        IF f \in DOMAIN kwargs THEN kwargs[f] ELSE cfg[f]]

UpdateConfig(kwargs) ==
    /\ config' = ApplyKwargs(config, kwargs)
    /\ Called("update_config", kwargs)
    /\ outcome' = "ok"
    /\ ret' = TRUE
    /\ UNCHANGED <<is_connected, metrics_history, now>>

(***************************************************************************)
(* FPGAController.read_metrics: synthesizes a sample from the config and   *)
(* appends it to metrics_history.  There is no check of the connection.    *)
(***************************************************************************)
\* a variant of base_latency that grows with the cores
base_latency_rising(cfg) == BaseLatency0 + (cfg.active_cores - MaxCores) * CoreStep

base_latency(cfg) == BaseLatency0 + (MaxCores - cfg.active_cores) * CoreStep

PerformanceMetrics(t, cfg, ln, tn, jn) ==
    [timestamp |-> t,
     latency_us |-> base_latency(cfg) + ln,
     throughput_mbps |-> cfg.active_cores * ThroughputPerCore + tn,
     jitter_us |-> jn,
     pcie_status |-> "active",
     dma_status |-> "active",
     compute_status |-> "active"]

\* a variant of ReadMetricsWith that puts the new sample first
ReadMetricsNewestFirst(limit, draws) ==
    /\ now < limit
    /\ \E d \in draws :
          LET metrics == PerformanceMetrics(now, config, d[1], d[2], d[3]) IN
          /\ metrics_history' = <<metrics>> \o metrics_history
          /\ ret' = metrics
    /\ now' = now + 1
    /\ Called("read_metrics", None)
    /\ outcome' = "ok"
    /\ UNCHANGED <<is_connected, config>>

ReadMetricsWith(limit, draws) ==
    /\ now < limit
    /\ \E d \in draws :
          LET metrics == PerformanceMetrics(now, config, d[1], d[2], d[3]) IN
          /\ metrics_history' = Append(metrics_history, metrics)
          /\ ret' = metrics
    /\ now' = now + 1
    /\ Called("read_metrics", None)
    /\ outcome' = "ok"
    /\ UNCHANGED <<is_connected, config>>

ReadMetrics == ReadMetricsWith(MaxSamples, RandomDraws)

(***************************************************************************)
(* FPGAController.stream_data(data): raises RuntimeError when the          *)
(* controller is not connected; otherwise runs the three phases (DMA       *)
(* write, compute, DMA read), each a sleep, and returns data itself.  The  *)
(* elapsed time it measures is dropped: nothing is appended to             *)
(* metrics_history.                                                        *)
(***************************************************************************)
StreamData(data) ==
    /\ Called("stream_data", data)
    /\ IF ~is_connected
       THEN /\ outcome' = "RuntimeError"
            /\ ret' = None
       ELSE /\ outcome' = "ok"
            /\ ret' = data
    /\ UNCHANGED <<is_connected, config, metrics_history, now>>

(***************************************************************************)
(* stream_data when one of its three phases raises.  The method has no     *)
(* try/except: the exception leaves the method as it is, after the         *)
(* connection check, and no field of the controller is assigned.           *)
(***************************************************************************)
StreamPhases == 1..3

StreamDataFault(data, phase) ==
    /\ is_connected
    /\ Called("stream_data", data)
    /\ outcome' = "PhaseError"
    /\ ret' = phase
    /\ UNCHANGED <<is_connected, config, metrics_history, now>>

(***************************************************************************)
(* Helpers of get_statistics and of the profiler: Python's slice, sum,     *)
(* min, max, sorted and int(len * p).                                      *)
(***************************************************************************)
\* xs[-n:]
LastN(xs, n) ==
    IF Len(xs) <= n THEN xs ELSE SubSeq(xs, Len(xs) - n + 1, Len(xs))

\* sum(xs), summed by halves
RECURSIVE Sum(_)
Sum(xs) ==
    IF Len(xs) = 0 THEN 0
    ELSE IF Len(xs) = 1 THEN xs[1]
    ELSE Sum(SubSeq(xs, 1, Len(xs) \div 2))
           + Sum(SubSeq(xs, (Len(xs) \div 2) + 1, Len(xs)))

Min(xs) == CHOOSE x \in {xs[i] : i \in 1..Len(xs)} :
              \A i \in 1..Len(xs) : x <= xs[i]

Max(xs) == CHOOSE x \in {xs[i] : i \in 1..Len(xs)} :
              \A i \in 1..Len(xs) : x >= xs[i]

\* the place of xs[i] in the ascending order of xs, equal elements in the
\* order they have in xs (sorted is stable)
SortedPlace(xs, i) ==
    Cardinality({j \in 1..Len(xs) :
                    xs[j] < xs[i] \/ (xs[j] = xs[i] /\ j < i)}) + 1

\* sorted(xs)
Sorted(xs) ==
    [k \in 1..Len(xs) |-> xs[CHOOSE i \in 1..Len(xs) : SortedPlace(xs, i) = k]]

\* a variant of PctIndex that ranks among n - 1 intervals
PctIndexOfIntervals(n, pct) == ((n - 1) * pct) \div 100

\* int(n * 0.95), int(n * 0.99): the product is a double, truncated.  For every
\* n up to 200000 the truncated double equals floor(n * pct / 100).
PctIndex(n, pct) == (n * pct) \div 100

\* sorted(xs)[int(len(xs) * pct/100)], zero-based in the code
Percentile(xs, pct) == Sorted(xs)[PctIndex(Len(xs), pct) + 1]

\* a quotient of two numbers, kept as <<numerator, denominator>>
Ratio(n, d) == <<n, d>>

(***************************************************************************)
(* FPGAController.get_statistics: {} for an empty history, else the        *)
(* statistics of the last 100 samples.  150 / average raises               *)
(* ZeroDivisionError for an average of zero.  No field is assigned.        *)
(***************************************************************************)
Statistics(history) ==
    LET recent == LastN(history, RecentWindow)
        latencies == [i \in 1..Len(recent) |-> recent[i].latency_us]
        jitters == [i \in 1..Len(recent) |-> recent[i].jitter_us]
    IN  [avg_latency_us |-> Ratio(Sum(latencies), Len(latencies)),
         max_latency_us |-> Max(latencies),
         min_latency_us |-> Min(latencies),
         p99_latency_us |-> Percentile(latencies, 99),
         max_jitter_us |-> Max(jitters),
         speedup_vs_cpu |-> Ratio(CpuBaseline * Len(latencies), Sum(latencies))]

\* a variant of GetStatistics that drops the samples it does not read
GetStatisticsTrimming ==
    /\ Called("get_statistics", None)
    /\ outcome' = "ok"
    /\ ret' = IF metrics_history = <<>> THEN <<>> ELSE Statistics(metrics_history)
    /\ metrics_history' = LastN(metrics_history, RecentWindow)
    /\ UNCHANGED <<is_connected, config, now>>

GetStatistics ==
    /\ Called("get_statistics", None)
    /\ IF metrics_history = <<>>
       THEN /\ outcome' = "ok"
            /\ ret' = <<>>
       ELSE IF Sum([i \in 1..Len(LastN(metrics_history, RecentWindow)) |->
                      LastN(metrics_history, RecentWindow)[i].latency_us]) = 0
       THEN /\ outcome' = "ZeroDivisionError"
            /\ ret' = None
       ELSE /\ outcome' = "ok"
            /\ ret' = Statistics(metrics_history)
    /\ UNCHANGED <<is_connected, config, metrics_history, now>>

(***************************************************************************)
(* The controller driven by an arbitrary caller.                           *)
(***************************************************************************)
Next ==
    \/ Connect /\ UNCHANGED prof
    \/ Disconnect /\ UNCHANGED prof
    \/ \E k \in KwargsChoices : UpdateConfig(k) /\ UNCHANGED prof
    \/ ReadMetrics /\ UNCHANGED prof
    \/ \E data \in Payloads : StreamData(data) /\ UNCHANGED prof
    \/ \E data \in Payloads, phase \in StreamPhases :
          StreamDataFault(data, phase) /\ UNCHANGED prof
    \/ GetStatistics /\ UNCHANGED prof

Spec == Init /\ [][Next]_vars

(***************************************************************************)
(* The controller over a long run of read_metrics calls.  To keep the run  *)
(* linear the three random draws of a call are a fixed function of the     *)
(* clock, each inside its interval, and the config stays at the defaults.  *)
(***************************************************************************)
WindowDraws == { << ((now * 7) % 21) - 5, ((now * 13) % 101) - 50, now % 6 >> }

WindowReadMetrics == ReadMetricsWith(MaxWindowSamples, WindowDraws)

NextWindow ==
    \/ Connect /\ UNCHANGED prof
    \/ Disconnect /\ UNCHANGED prof
    \/ WindowReadMetrics /\ UNCHANGED prof
    \/ GetStatistics /\ UNCHANGED prof

SpecWindow == Init /\ [][NextWindow]_vars

(***************************************************************************)
(* PerformanceProfiler.run_latency_test(iterations).  The loop calls       *)
(* stream_data once per iteration and appends the time the harness         *)
(* measured around the call; an exception of stream_data leaves the test.  *)
(* After the loop the statistics are computed: statistics.mean raises      *)
(* StatisticsError for no value and statistics.stdev for fewer than two.   *)
(*                                                                         *)
(* The elapsed time is what time.perf_counter measures: any value.  Here   *)
(* the first FreeIterations measurements are free choices from             *)
(* ElapsedValues and the later ones follow ElapsedPattern, a fixed         *)
(* sequence without order that takes 101 different values.                 *)
(***************************************************************************)
test_data == [j \in 1..TestPayloadLen |-> 120]

IterationChoices == {0, 1, 2, 3, 20, 21, MaxIterations}

ElapsedValues == {40, 140}

ElapsedPattern(i) == 40 + ((i * 37) % 101)

HarnessElapsed(i) ==
    IF i < FreeIterations THEN ElapsedValues ELSE {ElapsedPattern(i)}

\* statistics.median of a non-empty sequence
Median(xs) ==
    LET s == Sorted(xs)
        n == Len(xs)
    IN  IF n % 2 = 1 THEN Ratio(s[(n + 1) \div 2], 1)
        ELSE Ratio(s[n \div 2] + s[(n \div 2) + 1], 2)

\* the square of statistics.stdev: the sample variance, n - 1 in the denominator
Variance(xs) ==
    LET n == Len(xs)
        squares == [i \in 1..n |-> xs[i] * xs[i]]
    IN  Ratio(n * Sum(squares) - Sum(xs) * Sum(xs), n * (n - 1))

\* the results dictionary of run_latency_test
LatencyResults(latencies) ==
    [mean |-> Ratio(Sum(latencies), Len(latencies)),
     median |-> Median(latencies),
     stdev_squared |-> Variance(latencies),
     min |-> Min(latencies),
     max |-> Max(latencies),
     p95 |-> Percentile(latencies, 95),
     p99 |-> Percentile(latencies, 99)]

\* a test called on its own, outside run_full_validation
Standalone == [suite |-> FALSE, composite |-> <<>>]

\* an exception leaves the test, and run_full_validation
\* with it; collected is what the test's loop had gathered by then
Raised(ctx, test, error, collected) ==
    [pc |-> "raised", ctx |-> ctx, test |-> test, error |-> error,
     collected |-> collected]

\* the entry of run_latency_test
EnterLatencyTest(ctx, iterations) ==
    [pc |-> "latency_loop", ctx |-> ctx, iterations |-> iterations, i |-> 0,
     latencies |-> <<>>]

\* the call of run_latency_test: main() makes it on a controller that holds no
\* sample yet
RunLatencyTest(iterations) ==
    /\ prof.pc = "idle"
    /\ metrics_history = <<>>
    /\ prof' = EnterLatencyTest(Standalone, iterations)
    /\ UNCHANGED <<is_connected, config, metrics_history, now, pre, op, args,
                   outcome, ret>>

\* one iteration of the loop
LatencyIteration ==
    /\ prof.pc = "latency_loop"
    /\ prof.i < prof.iterations
    /\ \/ StreamData(test_data)
       \/ \E phase \in StreamPhases : StreamDataFault(test_data, phase)
    /\ IF outcome' = "ok"
       THEN \E elapsed \in HarnessElapsed(prof.i) :
               prof' = [prof EXCEPT !.i = @ + 1,
                                    !.latencies = Append(@, elapsed)]
       ELSE prof' = Raised(prof.ctx, "latency", outcome', prof.latencies)

\* the statistics after the loop
LatencyStatistics ==
    /\ prof.pc = "latency_loop"
    /\ prof.i = prof.iterations
    /\ prof' = IF Len(prof.latencies) < 2
               THEN Raised(prof.ctx, "latency", "StatisticsError", prof.latencies)
               ELSE [pc |-> "latency_done", ctx |-> prof.ctx,
                     latencies |-> prof.latencies,
                     results |-> LatencyResults(prof.latencies)]
    /\ UNCHANGED <<is_connected, config, metrics_history, now, pre, op, args,
                   outcome, ret>>

(***************************************************************************)
(* PerformanceProfiler.run_jitter_test(duration_seconds).  The loop reads  *)
(* one sample per pass and runs while the wall clock has not passed the    *)
(* duration: how many passes that makes is for the clock to say, so the    *)
(* loop may end after any number of samples.  Then the jitter values are   *)
(* the absolute differences of consecutive latencies, and the statistics   *)
(* of those: statistics.mean raises StatisticsError for no jitter value    *)
(* and statistics.stdev for a single one.  The verdict is only printed.    *)
(***************************************************************************)
\* the draws of the read_metrics calls a test makes: the two ends of each
\* interval and a point inside
TestDraws == RandomDraws \cup { <<0, 0, 2>> }

TestReadMetrics == ReadMetricsWith(MaxWindowSamples, TestDraws)

\* a variant of JitterVerdict that judges the mean, as the latency test does
JitterVerdictOnMean(results) ==
    IF results.mean_jitter[1] < JitterTarget * results.mean_jitter[2]
    THEN "PASS" ELSE "FAIL"

\* a variant of JitterValues that keeps the sign of the differences
SignedJitterValues(latencies) ==
    [i \in 1..(Len(latencies) - 1) |-> latencies[i + 1] - latencies[i]]

\* jitter_values: abs(latencies[i] - latencies[i-1]) for i in range(1, len)
JitterValues(latencies) ==
    [i \in 1..(Len(latencies) - 1) |->
        IF latencies[i + 1] >= latencies[i]
        THEN latencies[i + 1] - latencies[i]
        ELSE latencies[i] - latencies[i + 1]]

\* the results dictionary of run_jitter_test
JitterResults(jitter_values) ==
    [mean_jitter |-> Ratio(Sum(jitter_values), Len(jitter_values)),
     max_jitter |-> Max(jitter_values),
     stdev_jitter_squared |-> Variance(jitter_values)]

\* the line printed after the results: PASS for a maximum below the target
JitterVerdict(results) ==
    IF results.max_jitter < JitterTarget THEN "PASS" ELSE "FAIL"

EnterJitterTest(ctx) ==
    [pc |-> "jitter_loop", ctx |-> ctx, latencies |-> <<>>]

RunJitterTest ==
    /\ prof.pc = "idle"
    /\ metrics_history = <<>>
    /\ prof' = EnterJitterTest(Standalone)
    /\ UNCHANGED <<is_connected, config, metrics_history, now, pre, op, args,
                   outcome, ret>>

\* one pass of the loop: read_metrics, then keep its latency
JitterIteration ==
    /\ prof.pc = "jitter_loop"
    /\ Len(prof.latencies) < MaxTestSamples
    /\ TestReadMetrics
    /\ prof' = [prof EXCEPT !.latencies = Append(@, ret'.latency_us)]

\* the duration has elapsed: the jitter values are computed
JitterSeries ==
    /\ prof.pc = "jitter_loop"
    /\ prof' = [pc |-> "jitter_series", ctx |-> prof.ctx,
                latencies |-> prof.latencies,
                jitter_values |-> JitterValues(prof.latencies)]
    /\ UNCHANGED <<is_connected, config, metrics_history, now, pre, op, args,
                   outcome, ret>>

\* the statistics of the jitter values, and the verdict
JitterStatistics ==
    /\ prof.pc = "jitter_series"
    /\ prof' = IF Len(prof.jitter_values) < 2
               THEN Raised(prof.ctx, "jitter", "StatisticsError", prof.latencies)
               ELSE [pc |-> "jitter_done", ctx |-> prof.ctx,
                     latencies |-> prof.latencies,
                     jitter_values |-> prof.jitter_values,
                     results |-> JitterResults(prof.jitter_values),
                     verdict |-> JitterVerdict(JitterResults(prof.jitter_values))]
    /\ UNCHANGED <<is_connected, config, metrics_history, now, pre, op, args,
                   outcome, ret>>

(***************************************************************************)
(* PerformanceProfiler.run_throughput_test(duration_seconds): the same     *)
(* loop, keeping the throughput of each sample; statistics.mean raises     *)
(* StatisticsError when the loop read no sample.                           *)
(***************************************************************************)
ThroughputResults(throughputs) ==
    [mean_throughput |-> Ratio(Sum(throughputs), Len(throughputs)),
     min_throughput |-> Min(throughputs),
     max_throughput |-> Max(throughputs)]

EnterThroughputTest(ctx) ==
    [pc |-> "throughput_loop", ctx |-> ctx, throughputs |-> <<>>]

RunThroughputTest ==
    /\ prof.pc = "idle"
    /\ metrics_history = <<>>
    /\ prof' = EnterThroughputTest(Standalone)
    /\ UNCHANGED <<is_connected, config, metrics_history, now, pre, op, args,
                   outcome, ret>>

ThroughputIteration ==
    /\ prof.pc = "throughput_loop"
    /\ Len(prof.throughputs) < MaxTestSamples
    /\ TestReadMetrics
    /\ prof' = [prof EXCEPT !.throughputs = Append(@, ret'.throughput_mbps)]

\* the duration has elapsed: the statistics of the throughputs
ThroughputStatistics ==
    /\ prof.pc = "throughput_loop"
    /\ prof' = IF Len(prof.throughputs) < 1
               THEN Raised(prof.ctx, "throughput", "StatisticsError",
                           prof.throughputs)
               ELSE [pc |-> "throughput_done", ctx |-> prof.ctx,
                     throughputs |-> prof.throughputs,
                     results |-> ThroughputResults(prof.throughputs)]
    /\ UNCHANGED <<is_connected, config, metrics_history, now, pre, op, args,
                   outcome, ret>>

(***************************************************************************)
(* PerformanceProfiler.run_full_validation: one dictionary display whose   *)
(* three values are the three test calls, evaluated in the order they are  *)
(* written.  There is no try/except: an exception of a test leaves         *)
(* run_full_validation too.  composite holds the results of the tests that *)
(* have returned.  The code asks for 1000 iterations and twice 30 seconds; *)
(* the model runs SuiteIterations iterations and lets the clock end each   *)
(* timed loop.                                                             *)
(***************************************************************************)
\* a variant of SuiteOrder with the two timed tests first
SuiteOrderTimedFirst == <<"jitter", "throughput", "latency">>

\* the keys of the dictionary display, in the order written
SuiteOrder == <<"latency", "jitter", "throughput">>

\* the entry of the test named test
EnterTest(test, ctx) ==
    IF test = "latency" THEN EnterLatencyTest(ctx, SuiteIterations)
    ELSE IF test = "jitter" THEN EnterJitterTest(ctx)
    ELSE EnterThroughputTest(ctx)

\* the test whose loop or results the profiler stands at
CurrentTest ==
    IF prof.pc \in {"latency_loop", "latency_done"} THEN "latency"
    ELSE IF prof.pc \in {"jitter_loop", "jitter_series", "jitter_done"} THEN "jitter"
    ELSE "throughput"

RunFullValidation ==
    /\ prof.pc = "idle"
    /\ metrics_history = <<>>
    /\ prof' = EnterTest(SuiteOrder[1], [suite |-> TRUE, composite |-> <<>>])
    /\ UNCHANGED <<is_connected, config, metrics_history, now, pre, op, args,
                   outcome, ret>>

\* a test of the suite has returned: its results are kept under its key and
\* the next test is called, or the dictionary is complete
SuiteNextTest ==
    /\ prof.pc \in {"latency_done", "jitter_done", "throughput_done"}
    /\ prof.ctx.suite
    /\ LET done == Len(prof.ctx.composite) + 1
           composite == Append(prof.ctx.composite, <<CurrentTest, prof.results>>)
       IN  prof' = IF done < Len(SuiteOrder)
                   THEN EnterTest(SuiteOrder[done + 1],
                                  [suite |-> TRUE, composite |-> composite])
                   ELSE [pc |-> "validation_done", results |-> composite]
    /\ UNCHANGED <<is_connected, config, metrics_history, now, pre, op, args,
                   outcome, ret>>

\* a call of the profiler returns its results, or its exception reaches the
\* caller, and the program ends
ProfilerReturn ==
    /\ \/ prof.pc \in {"raised", "validation_done"}
       \/ /\ prof.pc \in {"latency_done", "jitter_done", "throughput_done"}
          /\ ~prof.ctx.suite
    /\ prof' = [pc |-> "exited"]
    /\ UNCHANGED <<is_connected, config, metrics_history, now, pre, op, args,
                   outcome, ret>>

(***************************************************************************)
(* The profiler and its caller on one thread: the caller uses the          *)
(* controller only while no test runs.                                     *)
(***************************************************************************)
CallerIdle == prof.pc = "idle" /\ UNCHANGED prof

NextProfiler ==
    \/ CallerIdle /\ Connect
    \/ CallerIdle /\ Disconnect
    \/ CallerIdle /\ WindowReadMetrics
    \/ CallerIdle /\ GetStatistics
    \/ \E n \in IterationChoices : RunLatencyTest(n)
    \/ LatencyIteration
    \/ LatencyStatistics
    \/ RunJitterTest
    \/ JitterIteration
    \/ JitterSeries
    \/ JitterStatistics
    \/ RunThroughputTest
    \/ ThroughputIteration
    \/ ThroughputStatistics
    \/ RunFullValidation
    \/ SuiteNextTest
    \/ ProfilerReturn

SpecProfiler == Init /\ [][NextProfiler]_vars

(***************************************************************************)
(* The connection state as the three-valued state of a session.  The       *)
(* controller keeps one boolean, so "Error" is no value of it.             *)
(***************************************************************************)
ConnectionState == IF is_connected THEN "Connected" ELSE "Disconnected"

\* the domains of the four configuration fields
InDomain(f, v) ==
    IF f = "filter_threshold" THEN v >= 0 ELSE v > 0

\* the fields of the config that a call's keywords name
Supplied(kwargs) == DOMAIN kwargs \cap ConfigFields

AllValid(kwargs) == \A f \in Supplied(kwargs) : InDomain(f, kwargs[f])

(***************************************************************************)
(* Claims.                                                                 *)
(***************************************************************************)

\* C1: a stream_data or read_metrics call that begins while the controller is
\* not connected raises a not-connected error and leaves metrics_history as
\* it was.
C1_DisconnectedCallsFail ==
    (op \in {"stream_data", "read_metrics"} /\ ~pre.is_connected)
        => /\ outcome = "RuntimeError"
           /\ metrics_history = pre.metrics_history

\* C2: after disconnect the controller is not connected, metrics_history is
\* empty and the config equals the defaults.
C2_DisconnectResets ==
    op = "disconnect"
        => /\ ~is_connected
           /\ metrics_history = <<>>
           /\ config = FPGAConfig

\* C3: metrics_history never holds more samples than the capacity of 100:
\* a push onto a full window evicts the oldest sample, so the window is the
\* last 100 samples pushed.
C3_WindowBounded ==
    /\ Len(metrics_history) <= RecentWindow
    /\ (op = "read_metrics" /\ Len(pre.metrics_history) = RecentWindow
          => metrics_history = Append(Tail(pre.metrics_history), ret))

\* C4: an update_config call with several fields, one of them outside its
\* domain, raises an invalid-config error and leaves the config as it was.
C4_InvalidUpdateIsAtomic ==
    (op = "update_config" /\ Cardinality(Supplied(args)) >= 2 /\ ~AllValid(args))
        => /\ outcome = "InvalidConfigError"
           /\ config = pre.config

\* C5: after an update_config call whose supplied fields are all valid, every
\* supplied field holds the supplied value and every other field holds the
\* value it had when the call began; the call returns True.
C5_ValidUpdateFrame ==
    (op = "update_config" /\ AllValid(args))
        => /\ outcome = "ok"
           /\ ret = TRUE
           /\ \A f \in ConfigFields :
                 config[f] = IF f \in DOMAIN args THEN args[f] ELSE pre.config[f]

\* C5 witness: a valid three-field update was applied to a config whose
\* fourth field an earlier call had moved off its default.
C5_Witness ==
    /\ op = "update_config"
    /\ args = [active_cores |-> 6, window_size |-> 2048, data_rate |-> 1500]
    /\ pre.config.filter_threshold = -1
    /\ pre.config.active_cores = 0
    /\ config.active_cores = 6
    /\ config.filter_threshold = -1

\* C6: update_config is refused unless the controller is connected: the
\* config differs from what it was when the last call began only if that call
\* began connected, and an update_config call that began disconnected raised.
C6_UpdateOnlyWhenConnected ==
    /\ (config # pre.config => pre.is_connected)
    /\ (op = "update_config" /\ ~pre.is_connected => outcome # "ok")

\* C7: after a stream_data call in which a phase raised, the session is in
\* the Error state (it is not Connected).
C7_FaultForcesError ==
    (op = "stream_data" /\ outcome = "PhaseError")
        => ConnectionState = "Error"

\* C8: connect leaves the controller connected and returns True without
\* touching the config or the history; called while already connected it
\* changes no field at all.
C8_ConnectIdempotent ==
    op = "connect"
        => /\ is_connected
           /\ outcome = "ok"
           /\ ret = TRUE
           /\ config = pre.config
           /\ metrics_history = pre.metrics_history
           /\ (pre.is_connected => Fields = pre)

\* C8 witness: connect was called on a connected controller that holds
\* samples and a changed config.
C8_Witness ==
    /\ op = "connect"
    /\ pre.is_connected
    /\ is_connected
    /\ metrics_history # <<>>
    /\ config # FPGAConfig

\* C9: a stream_data call that returns hands back a payload as long as its
\* input and has appended exactly one sample to metrics_history.
C9_StreamAppendsOneSample ==
    (op = "stream_data" /\ outcome = "ok")
        => /\ Len(ret) = Len(args)
           /\ \/ /\ Len(metrics_history) = Len(pre.metrics_history) + 1
                 /\ SubSeq(metrics_history, 1, Len(pre.metrics_history))
                       = pre.metrics_history
              \/ /\ Len(pre.metrics_history) = RecentWindow
                 /\ Len(metrics_history) = RecentWindow
                 /\ SubSeq(metrics_history, 1, RecentWindow - 1)
                       = Tail(pre.metrics_history)

\* the latencies get_statistics computes over
RecentLatencies ==
    [i \in 1..Len(LastN(metrics_history, RecentWindow)) |->
        LastN(metrics_history, RecentWindow)[i].latency_us]

\* v is the element at zero-based index floor(pct/100 * n) of the ascending
\* order of xs, said without sorting: v occurs in xs, at most that many
\* elements are smaller than v and more than that many are at most v
NearestRank(xs, pct, v) ==
    LET n == Len(xs)
        k == (pct * n) \div 100
    IN  /\ k \in 0..(n - 1)
        /\ \E i \in 1..n : xs[i] = v
        /\ Cardinality({i \in 1..n : xs[i] < v}) <= k
        /\ k < Cardinality({i \in 1..n : xs[i] <= v})

\* C10: the p95 and p99 a latency test reports, and the p99 get_statistics
\* reports, are the elements at index floor(p/100 * n) of the ascending order
\* of the n values, that index lies in [0, n-1], and min <= p95 <= p99 <= max.
C10_NearestRankPercentile ==
    /\ prof.pc = "latency_done"
          => /\ NearestRank(prof.latencies, 95, prof.results.p95)
             /\ NearestRank(prof.latencies, 99, prof.results.p99)
             /\ prof.results.min <= prof.results.p95
             /\ prof.results.p95 <= prof.results.p99
             /\ prof.results.p99 <= prof.results.max
    /\ (op = "get_statistics" /\ outcome = "ok" /\ metrics_history # <<>>)
          => /\ NearestRank(RecentLatencies, 99, ret.p99_latency_us)
             /\ ret.min_latency_us <= ret.p99_latency_us
             /\ ret.p99_latency_us <= ret.max_latency_us

\* C10 witness: a latency test of more than 100 iterations reported a p95
\* below its p99 and a p99 below its maximum.
C10_Witness ==
    /\ prof.pc = "latency_done"
    /\ Len(prof.latencies) > 100
    /\ prof.results.min < prof.results.p95
    /\ prof.results.p95 < prof.results.p99
    /\ prof.results.p99 < prof.results.max

\* C11: the jitter values of n >= 2 latencies are n - 1 values, the i-th the
\* absolute difference of the (i+1)-th and the i-th latency (0 for two equal
\* latencies); with fewer than 2 latencies the test gives no result: it
\* raises StatisticsError.
C11_JitterSeries ==
    /\ (prof.pc \in {"jitter_series", "jitter_done"} /\ Len(prof.latencies) >= 2)
          => /\ Len(prof.jitter_values) = Len(prof.latencies) - 1
             /\ \A i \in 1..(Len(prof.latencies) - 1) :
                   /\ prof.jitter_values[i] >= 0
                   /\ \/ prof.jitter_values[i]
                           = prof.latencies[i + 1] - prof.latencies[i]
                      \/ prof.jitter_values[i]
                           = prof.latencies[i] - prof.latencies[i + 1]
    /\ prof.pc = "jitter_done" => Len(prof.latencies) >= 2
    /\ (prof.pc = "raised" /\ prof.test = "jitter")
          => prof.error = "StatisticsError"

\* C11 witness: three latencies, a drop and then no change, gave the jitter
\* values 20 and 0.
C11_Witness ==
    /\ prof.pc = "jitter_series"
    /\ Len(prof.latencies) = 3
    /\ prof.latencies[1] > prof.latencies[2]
    /\ prof.latencies[2] = prof.latencies[3]
    /\ prof.jitter_values = <<20, 0>>

\* C14 as claimed: a jitter test that collected at least 2 latencies does not
\* raise.
C14_TwoSamplesSuffice ==
    (prof.pc = "raised" /\ prof.test = "jitter") => Len(prof.collected) < 2

\* C14 as amended: a jitter test that collected at least 3 latencies does not
\* raise; a test that completed reports the mean, the maximum and the
\* variance of its jitter values, and its verdict is PASS exactly when the
\* maximum jitter is below the target of 10.
C14_ThreeSamplesSuffice ==
    /\ (prof.pc = "raised" /\ prof.test = "jitter") => Len(prof.collected) < 3
    /\ prof.pc = "jitter_done"
          => /\ Len(prof.latencies) >= 3
             /\ DOMAIN prof.results
                   = {"mean_jitter", "max_jitter", "stdev_jitter_squared"}
             /\ prof.results.mean_jitter[2] = Len(prof.jitter_values)
             /\ \A i \in 1..Len(prof.jitter_values) :
                   prof.jitter_values[i] <= prof.results.max_jitter
             /\ \E i \in 1..Len(prof.jitter_values) :
                   prof.jitter_values[i] = prof.results.max_jitter
             /\ (prof.verdict = "PASS") <=> (prof.results.max_jitter < JitterTarget)

\* C14 witness: a jitter test of three latencies completed with a mean jitter
\* below 10, a maximum jitter of 15 and the verdict FAIL.
C14_Witness ==
    /\ prof.pc = "jitter_done"
    /\ Len(prof.latencies) = 3
    /\ prof.results.max_jitter = 15
    /\ prof.results.mean_jitter[1] < JitterTarget * prof.results.mean_jitter[2]
    /\ prof.verdict = "FAIL"

\* the keys of a composite result, in the order they were filled in
SuiteKeys(composite) == [i \in 1..Len(composite) |-> composite[i][1]]

\* the profiler stands inside a test of run_full_validation
InSuiteTest ==
    /\ prof.pc \in {"latency_loop", "latency_done", "jitter_loop", "jitter_series",
                    "jitter_done", "throughput_loop", "throughput_done"}
    /\ prof.ctx.suite

\* C12: run_full_validation runs latency, then jitter, then throughput, each
\* after the one before has returned: the latency test runs with no result
\* and no sample yet, the jitter test with the latency results only, the
\* throughput test with those two, and the composite result has exactly the
\* keys latency, jitter, throughput.
C12_SuiteOrder ==
    /\ InSuiteTest =>
          /\ CurrentTest = "latency"
                => prof.ctx.composite = <<>> /\ metrics_history = <<>>
          /\ CurrentTest = "jitter"
                => SuiteKeys(prof.ctx.composite) = <<"latency">>
          /\ CurrentTest = "throughput"
                => SuiteKeys(prof.ctx.composite) = <<"latency", "jitter">>
    /\ prof.pc = "validation_done"
          => SuiteKeys(prof.results) = <<"latency", "jitter", "throughput">>

\* C12 witness: a full validation completed, its jitter and throughput tests
\* having read samples.
C12_Witness ==
    /\ prof.pc = "validation_done"
    /\ Len(metrics_history) >= 4
    /\ op = "read_metrics"

\* C13: a test of run_full_validation whose samples are too few does not
\* abort the suite: no StatisticsError leaves run_full_validation (the test
\* is recorded as Skipped and the next test runs).
C13_PrerequisiteSkips ==
    (prof.pc = "raised" /\ prof.ctx.suite) => prof.error # "StatisticsError"

\* C15: a read_metrics call on a connected controller returns a sample and
\* appends that sample to metrics_history: the history is the one before the
\* call, in its order, followed by the sample returned.
C15_ReadAppendsReturned ==
    (op = "read_metrics" /\ pre.is_connected /\ outcome = "ok")
        => /\ metrics_history = Append(pre.metrics_history, ret)
           /\ metrics_history[Len(metrics_history)] = ret
           /\ Len(metrics_history) = Len(pre.metrics_history) + 1

\* C15 witness: a connected controller holding two samples read a third.
C15_Witness ==
    /\ op = "read_metrics"
    /\ pre.is_connected
    /\ Len(pre.metrics_history) = 2
    /\ Len(metrics_history) = 3
    /\ metrics_history[3] = ret
    /\ metrics_history[1].latency_us # metrics_history[3].latency_us

\* the number of samples get_statistics reads: min(100, length)
RecentCount == IF Len(metrics_history) < 100 THEN Len(metrics_history) ELSE 100

\* the k-th of the samples get_statistics reads, oldest first
RecentSample(k) == metrics_history[Len(metrics_history) - RecentCount + k]

\* C16: get_statistics changes no field of the controller, for every length of
\* the history; it returns {} for an empty history and otherwise statistics
\* over the last min(100, length) samples.
C16_StatisticsReadOnly ==
    op = "get_statistics"
        => /\ Fields = pre
           /\ metrics_history = <<>> => (outcome = "ok" /\ ret = <<>>)
           /\ (metrics_history # <<>> /\ outcome = "ok")
                 => /\ ret.avg_latency_us[2] = RecentCount
                    /\ ret.avg_latency_us[1]
                          = Sum([k \in 1..RecentCount |-> RecentSample(k).latency_us])
                    /\ \A k \in 1..RecentCount :
                          /\ RecentSample(k).latency_us <= ret.max_latency_us
                          /\ RecentSample(k).latency_us >= ret.min_latency_us
                          /\ RecentSample(k).jitter_us <= ret.max_jitter_us
                    /\ \E k \in 1..RecentCount :
                          RecentSample(k).jitter_us = ret.max_jitter_us

\* C16 witness: get_statistics ran over a history of more than 100 samples
\* and read 100 of them.
C16_Witness ==
    /\ op = "get_statistics"
    /\ outcome = "ok"
    /\ Len(metrics_history) > 100
    /\ ret.avg_latency_us[2] = 100
    /\ metrics_history[1].latency_us # metrics_history[101].latency_us

\* C17: the latency of a sample lies within [base - 5, base + 15] for
\* base = 50 + (8 - active_cores) * 10 of the config the call began with, its
\* jitter lies within [0, 5], and the base is strictly higher for fewer cores.
C17_BaseLatency ==
    /\ op = "read_metrics"
          => /\ ret.latency_us >= 50 + (8 - pre.config.active_cores) * 10 - 5
             /\ ret.latency_us <= 50 + (8 - pre.config.active_cores) * 10 + 15
             /\ ret.jitter_us >= 0
             /\ ret.jitter_us <= 5
    /\ \A c1, c2 \in 0..8 :
          c1 < c2 => base_latency([active_cores |-> c1])
                        > base_latency([active_cores |-> c2])

\* C17 witness: with 6 active cores a sample of latency 85 = 70 + 15 was read
\* after one of latency 85 = 90 - 5 with the default 4 cores.
C17_Witness ==
    /\ op = "read_metrics"
    /\ pre.config.active_cores = 6
    /\ ret.latency_us = 85
    /\ Len(metrics_history) = 2
    /\ metrics_history[1].latency_us = 85
    /\ metrics_history[1].throughput_mbps < 1100

\* C18: the controller starts not connected; connect leaves it connected,
\* disconnect not connected, and every other call (update_config,
\* read_metrics, stream_data, get_statistics) leaves is_connected as it was.
C18_OnlyConnectDisconnect ==
    /\ op = "__init__" => ~is_connected
    /\ op = "connect" => is_connected
    /\ op = "disconnect" => ~is_connected
    /\ op \in {"update_config", "read_metrics", "stream_data", "get_statistics"}
          => is_connected = pre.is_connected

\* C18 witness: a disconnect on a connected controller that holds samples and
\* a changed config.
C18_Witness ==
    /\ op = "disconnect"
    /\ pre.is_connected
    /\ ~is_connected
    /\ metrics_history # <<>>
    /\ config # FPGAConfig

\* C19: the config has exactly the four fields window_size, active_cores,
\* data_rate and filter_threshold in every state, and an update_config call
\* leaves the fields it does not name as they were.
C19_FixedSchema ==
    /\ DOMAIN config
          = {"window_size", "active_cores", "data_rate", "filter_threshold"}
    /\ op = "update_config"
          => \A f \in ConfigFields \ DOMAIN args : config[f] = pre.config[f]

====
